---- MODULE Spec2Model ----
(***************************************************************************)
(* The xhr-polling socket of go-socket.io (socketio/transport_xhrpolling.go) *)
(* as a state machine: one xhrPollingSocket driven by a single flow of     *)
(* control through accept, Read, Write and Close.  The HTTP exchange, the  *)
(* hijacked connection and the continuation are the environment: their    *)
(* outcomes are inputs drawn from small sets.  Byte strings are sequences  *)
(* of ASCII codes.                                                         *)
(***************************************************************************)
EXTENDS Integers, Sequences, FiniteSets, TLC

VARIABLES
    connected,  \* xhrPollingSocket.connected
    rwc,        \* xhrPollingSocket.rwc: index into conns, or NoConn
    req,        \* xhrPollingSocket.req
    t,          \* xhrPollingSocket.t: the transport's two timeouts
    conns,      \* the raw connections hijacked so far: the calls made on each
    last,       \* the last call made on the socket, and the call its continuation made
    accepts,    \* history: how many calls of accept returned no error
    heldReq,    \* history: the request of the accept that connected the socket
    flows,      \* concurrent callers: each flow's call, its position and its results
    overlap     \* history: whether a call passed its guard while another was under way

vars == <<connected, rwc, req, t, conns, last, accepts, heldReq, flows, overlap>>

----------------------------------------------------------------------------
(* Bounds of the model. *)

\* Connections the environment lets the socket hijack in one behaviour.
MaxConns == 2
\* Reads issued on one connection.
MaxReads == 1
\* Length of the enumerated payloads.
MaxPayload == 1
\* Length of the buffer handed to Read.
MaxBuf == 1
\* Length of the one long payload (a Content-Length of two digits).
LongLen == 11
\* Calls each concurrent flow of control makes.
MaxCalls == 1

----------------------------------------------------------------------------
(* Values. *)

\* The nil io.ReadWriteCloser and the nil *http.Request: the zero values of
\* a socket made by newSocket.
NoConn == 0
NoReq == [isNil |-> TRUE, origin |-> <<>>]

NoErr == "nil"
ErrConnected == "already connected"
ErrNotConnected == "not connected"
ErrShortWrite == "short write"

\* Errors the environment can produce.
HijackErrors == {"http: connection has been hijacked", "http: connection closed"}
ReadErrors == {NoErr, "EOF", "i/o timeout"}
WriteErrors == {"broken pipe"}
CloseErrors == {NoErr, "close failed"}
DeadlineErrors == {NoErr, "use of closed network connection"}

\* Timeouts a transport is built with (time.Duration; 0 means none).
Timeouts == {0, 1}

\* The ASCII codes written by Write.
StatusLine == <<72, 84, 84, 80, 47, 49, 46, 48, 32, 50, 48, 48, 32, 79, 75, 13, 10>>
ContentTypeLine == <<67, 111, 110, 116, 101, 110, 116, 45, 84, 121, 112, 101, 58, 32, 116, 101, 120, 116, 47, 112, 108, 97, 105, 110, 59, 32, 99, 104, 97, 114, 115, 101, 116, 61, 85, 84, 70, 45, 56, 13, 10>>
ContentLengthKey == <<67, 111, 110, 116, 101, 110, 116, 45, 76, 101, 110, 103, 116, 104, 58, 32>>
AllowOriginKey == <<65, 99, 99, 101, 115, 115, 45, 67, 111, 110, 116, 114, 111, 108, 45, 65, 108, 108, 111, 119, 45, 79, 114, 105, 103, 105, 110, 58, 32>>
AllowCredentialsLine == <<65, 99, 99, 101, 115, 115, 45, 67, 111, 110, 116, 114, 111, 108, 45, 65, 108, 108, 111, 119, 45, 67, 114, 101, 100, 101, 110, 116, 105, 97, 108, 115, 58, 32, 116, 114, 117, 101, 13, 10>>
CRLF == <<13, 10>>

\* Sequences over S of length at most n.
SeqsUpTo(S, n) == UNION {[1..k -> S] : k \in 0..n}

\* Payloads: runs of 'a', and one long payload of CR, LF and 'x'.
PayloadBytes == {97}
Payloads ==
    SeqsUpTo(PayloadBytes, MaxPayload)
    \cup {[i \in 1..LongLen |-> IF i % 3 = 1 THEN 13 ELSE IF i % 3 = 2 THEN 10 ELSE 120]}

\* The values of the request's Origin header, in order: none, one empty
\* value, and two values ("o%" then "x").
OriginHeaders == {<<>>, << <<>> >>, << <<111, 37>>, <<120>> >>}
Requests == {[isNil |-> FALSE, origin |-> o] : o \in OriginHeaders}

\* An HTTP exchange (the http.ResponseWriter) as accept meets it: whether it
\* implements http.Hijacker, what Hijack returns, the kind of connection it
\* yields, and what the two deadline setters of that connection return.
Exchanges ==
    {[hijacker |-> FALSE, herr |-> NoErr, kind |-> "none", rdlErr |-> NoErr, wdlErr |-> NoErr]}
    \cup {[hijacker |-> TRUE, herr |-> e, kind |-> "none", rdlErr |-> NoErr, wdlErr |-> NoErr] :
            e \in HijackErrors}
    \cup {[hijacker |-> TRUE, herr |-> NoErr, kind |-> k, rdlErr |-> re, wdlErr |-> we] :
            k \in {"tcp", "other"}, re \in DeadlineErrors, we \in DeadlineErrors}

\* The kind of exchange accept was given.
ExchangeKind(w) ==
    IF ~w.hijacker THEN "no hijacker"
    ELSE IF w.herr # NoErr THEN "hijack error"
    ELSE w.kind

\* A connection just hijacked: how often each of its methods was called.
NewConn == [rdl |-> 0, wdl |-> 0, reads |-> 0, writes |-> 0, closes |-> 0]

\* The socket and its connections as one value.
State(c, r, q, cs) == [connected |-> c, rwc |-> r, req |-> q, conns |-> cs]

\* One operation performed during a call, on the exchange or on connection
\* c: Hijack, SetReadDeadline, SetWriteDeadline, Read, Write, Close, or the
\* invocation of the continuation (proceed); the bytes it was handed and
\* the error it returned.
Event(op, c, data, err) == [op |-> op, c |-> c, data |-> data, err |-> err]

\* A call on the socket as an observer sees it: the operation, the state
\* before it, the payload and request it was given, the kind of exchange
\* (accept), the byte count and error returned, whether it panicked, and the
\* operations performed during it.  The state after it is the current one.
Call(op, pre, p, r, wkind, res) ==
    [op |-> op, pre |-> pre, p |-> p, r |-> r, wkind |-> wkind,
     n |-> res.n, err |-> res.err, panic |-> res.panic, trace |-> res.trace]

NoCall ==
    [op |-> "none", pre |-> State(FALSE, NoConn, NoReq, <<>>), p |-> <<>>, r |-> NoReq,
     wkind |-> "none", n |-> 0, err |-> NoErr, panic |-> FALSE, trace |-> <<>>]

\* What a call returns and leaves behind: the state, the byte count, the
\* error, whether it panicked, the operations it performed in order, and the
\* call its continuation made.
Result(st, n, err, trace) ==
    [st |-> st, n |-> n, err |-> err, panic |-> FALSE, trace |-> trace,
     nested |-> NoCall]

----------------------------------------------------------------------------
(* The library functions Write relies on. *)

\* fmt's %d of a non-negative int.
RECURSIVE Itoa(_)
Itoa(n) == IF n < 10 THEN <<48 + n>> ELSE Itoa(n \div 10) \o <<48 + (n % 10)>>

\* http.Header.Get("Origin"): the first value of the header, "" without one.
HeaderGet(r) == IF Len(r.origin) = 0 THEN <<>> ELSE r.origin[1]

\* What the connection's Write does with a buffer of n bytes: how many
\* bytes it takes and the error it returns.  An io.Writer that takes fewer
\* than n bytes returns an error.
WriteOutcomes ==
    {[take |-> "all", err |-> NoErr]}
    \cup {[take |-> k, err |-> e] : k \in {"half", "none"}, e \in WriteErrors}

Taken(n, wout) ==
    CASE wout.take = "all" -> n
      [] wout.take = "half" -> n \div 2
      [] OTHER -> 0

\* bytes.Buffer.WriteTo: one Write of the whole buffer on the connection,
\* its count, and its error (io.ErrShortWrite for a short count without
\* one).
WriteTo(buf, wout) ==
    LET m == Taken(Len(buf), wout)
    IN  [n |-> m,
         err |-> IF wout.err # NoErr THEN wout.err
                 ELSE IF m # Len(buf) THEN ErrShortWrite
                 ELSE NoErr]

----------------------------------------------------------------------------
(* The socket's methods, as functions of the state and the environment's   *)
(* outcomes.                                                               *)

\* Mutant: the CORS lines whenever the request is at hand, empty Origin or not.
CorsLinesUnconditional(origin) ==
    AllowOriginKey \o origin \o CRLF \o AllowCredentialsLine

\* The two CORS lines of the response, for the value of the Origin header.
CorsLines(origin) ==
    IF origin # <<>>
    THEN AllowOriginKey \o origin \o CRLF \o AllowCredentialsLine
    ELSE <<>>

\* Mutant: the length of the whole response to a request without Origin.
ContentLengthOfResponse(p) ==
    Len(StatusLine) + Len(ContentTypeLine) + Len(ContentLengthKey) + 1
    + 2 * Len(CRLF) + Len(p)

\* The length Write announces for payload p.
ContentLength(p) == Len(p)

\* The buffer Write builds for payload p on a socket whose request is r.
Response(p, r) ==
    StatusLine \o ContentTypeLine
    \o ContentLengthKey \o Itoa(ContentLength(p)) \o CRLF
    \o CorsLines(HeaderGet(r))
    \o CRLF
    \o p

\* Mutant: Close that leaves the connected flag set.
CloseKeepsFlag(st, cout) ==
    IF ~st.connected
    THEN Result(st, 0, ErrNotConnected, <<>>)
    ELSE Result([st EXCEPT !.conns[st.rwc].closes = @ + 1], 0, cout,
                <<Event("Close", st.rwc, <<>>, cout)>>)

\* Mutant: Close that reports success whatever the connection's Close returns.
CloseDropsError(st, cout) ==
    IF ~st.connected
    THEN Result(st, 0, ErrNotConnected, <<>>)
    ELSE Result([st EXCEPT !.connected = FALSE, !.conns[st.rwc].closes = @ + 1],
                0, NoErr, <<Event("Close", st.rwc, <<>>, cout)>>)

\* Close; cout is what the connection's Close returns.
Close(st, cout) ==
    IF ~st.connected
    THEN Result(st, 0, ErrNotConnected, <<>>)
    ELSE LET s1 == [st EXCEPT !.connected = FALSE]
             s2 == [s1 EXCEPT !.conns[s1.rwc].closes = @ + 1]
         IN  Result(s2, 0, cout, <<Event("Close", s1.rwc, <<>>, cout)>>)

\* The n bytes a connection's Read put into the buffer.
Delivered(n) == [i \in 1..n |-> 120]

\* Mutant: Read guarded by the connection being set, not by the flag.
ReadIfHeld(st, rout) ==
    IF st.rwc = NoConn
    THEN Result(st, 0, ErrNotConnected, <<>>)
    ELSE Result([st EXCEPT !.conns[st.rwc].reads = @ + 1], rout.n, rout.err,
                <<Event("Read", st.rwc, Delivered(rout.n), rout.err)>>)

\* Mutant: Read that closes the socket when the connection's Read fails.
ReadClosesOnError(st, rout) ==
    IF ~st.connected
    THEN Result(st, 0, ErrNotConnected, <<>>)
    ELSE LET s1 == [st EXCEPT !.conns[st.rwc].reads = @ + 1]
             s2 == IF rout.err = NoErr THEN s1
                   ELSE [s1 EXCEPT !.connected = FALSE, !.conns[st.rwc].closes = @ + 1]
         IN  Result(s2, rout.n, rout.err,
                    <<Event("Read", st.rwc, Delivered(rout.n), rout.err)>>)

\* Read; rout is what the connection's Read returns.
Read(st, rout) ==
    IF ~st.connected
    THEN Result(st, 0, ErrNotConnected, <<>>)
    ELSE LET s1 == [st EXCEPT !.conns[st.rwc].reads = @ + 1]
         IN  Result(s1, rout.n, rout.err,
                    <<Event("Read", st.rwc, Delivered(rout.n), rout.err)>>)

\* Mutant: Write that closes the socket only when the write succeeded.
WriteClosesOnSuccess(st, p, wout, cout) ==
    IF ~st.connected
    THEN Result(st, 0, ErrNotConnected, <<>>)
    ELSE LET buf == Response(p, st.req)
             wr == WriteTo(buf, wout)
             s1 == [st EXCEPT !.conns[st.rwc].writes = @ + 1]
             cl == IF wr.err = NoErr THEN Close(s1, cout) ELSE Result(s1, 0, NoErr, <<>>)
         IN  Result(cl.st, Len(p), wr.err,
                    <<Event("Write", st.rwc, buf, wout.err)>> \o cl.trace)

\* Mutant: Write that returns the count of bytes the connection took.
WriteReturnsWireCount(st, p, wout, cout) ==
    IF ~st.connected
    THEN Result(st, 0, ErrNotConnected, <<>>)
    ELSE LET buf == Response(p, st.req)
             wr == WriteTo(buf, wout)
             s1 == [st EXCEPT !.conns[st.rwc].writes = @ + 1]
             cl == Close(s1, cout)
         IN  Result(cl.st, wr.n, wr.err,
                    <<Event("Write", st.rwc, buf, wout.err)>> \o cl.trace)

\* Mutant: Write that leaves the socket open.
WriteStaysOpen(st, p, wout, cout) ==
    IF ~st.connected
    THEN Result(st, 0, ErrNotConnected, <<>>)
    ELSE LET buf == Response(p, st.req)
             wr == WriteTo(buf, wout)
             s1 == [st EXCEPT !.conns[st.rwc].writes = @ + 1]
         IN  Result(s1, Len(p), wr.err, <<Event("Write", st.rwc, buf, wout.err)>>)

\* Write; wout and cout are what the connection's Write and Close do.  The
\* deferred Close runs after the results are set and its error is dropped.
Write(st, p, wout, cout) ==
    IF ~st.connected
    THEN Result(st, 0, ErrNotConnected, <<>>)
    ELSE LET buf == Response(p, st.req)
             wr == WriteTo(buf, wout)
             s1 == [st EXCEPT !.conns[st.rwc].writes = @ + 1]
             cl == Close(s1, cout)
         IN  Result(cl.st, Len(p), wr.err,
                    <<Event("Write", st.rwc, buf, wout.err)>> \o cl.trace)

\* What the continuation handed to accept does with the socket: nothing, or
\* one call on it, with the environment's outcomes for that call.
NoContinuation ==
    [op |-> "none", p |-> <<>>, rout |-> [n |-> 0, err |-> NoErr],
     wout |-> [take |-> "all", err |-> NoErr], cout |-> NoErr]

Continuations ==
    {[NoContinuation EXCEPT !.op = o] : o \in {"none", "accept", "Read", "Close"}}
    \cup {[NoContinuation EXCEPT !.op = "Write", !.p = <<97>>]}

\* Mutant: the deadline set whatever the timeout, zero or not.
SetDeadlineIgnoresZero(res, kind, which, timeout, derr) ==
    IF res.panic THEN res
    ELSE IF kind # "tcp" THEN [res EXCEPT !.panic = TRUE]
    ELSE [res EXCEPT
            !.st.conns[res.st.rwc][which] = @ + 1,
            !.trace = Append(@, Event(IF which = "rdl" THEN "SetReadDeadline"
                                      ELSE "SetWriteDeadline",
                                      res.st.rwc, <<>>, derr))]

\* s.rwc.(*net.TCPConn).SetReadDeadline / SetWriteDeadline when the timeout
\* is not zero: the assertion panics unless the connection is a
\* *net.TCPConn, and the setter's error is dropped.
SetDeadline(res, kind, which, timeout, derr) ==
    IF res.panic \/ timeout = 0 THEN res
    ELSE IF kind # "tcp" THEN [res EXCEPT !.panic = TRUE]
    ELSE [res EXCEPT
            !.st.conns[res.st.rwc][which] = @ + 1,
            !.trace = Append(@, Event(IF which = "rdl" THEN "SetReadDeadline"
                                      ELSE "SetWriteDeadline",
                                      res.st.rwc, <<>>, derr))]

RECURSIVE accept(_, _, _, _), Proceed(_, _, _, _)

\* Mutant: accept that invokes the continuation before it marks the socket
\* connected.
acceptProceedsFirst(st, w, r, k) ==
    LET s1 == [st EXCEPT !.req = r]
    IN  IF ~w.hijacker
        THEN [Result(s1, 0, NoErr, <<>>) EXCEPT !.panic = TRUE]
        ELSE IF w.herr # NoErr
        THEN Result([s1 EXCEPT !.rwc = NoConn], 0, w.herr,
                    <<Event("Hijack", NoConn, <<>>, w.herr)>>)
        ELSE LET c == Len(s1.conns) + 1
                 s2 == [s1 EXCEPT !.rwc = c, !.conns = Append(@, NewConn)]
                 hj == Result(s2, 0, NoErr, <<Event("Hijack", c, <<>>, NoErr)>>)
                 rd == SetDeadline(hj, w.kind, "rdl", t.rtimeout, w.rdlErr)
                 wd == SetDeadline(rd, w.kind, "wdl", t.wtimeout, w.wdlErr)
                 nd == Proceed(wd.st, w, r, k)
             IN  IF wd.panic THEN wd
                 ELSE [wd EXCEPT
                         !.st = [nd.st EXCEPT !.connected = TRUE],
                         !.trace = Append(@, Event("proceed", NoConn, <<>>, NoErr))
                                   \o nd.trace,
                         !.nested = Call(k.op, wd.st, k.p, r, "none", nd)]

\* accept past its guard: record the request, hijack the connection and, if
\* that succeeded, set the deadlines, mark the socket connected and proceed.
acceptBody(st, w, r, k) ==
    LET s1 == [st EXCEPT !.req = r]
    IN  IF ~w.hijacker
        THEN [Result(s1, 0, NoErr, <<>>) EXCEPT !.panic = TRUE]
        ELSE IF w.herr # NoErr
        THEN Result([s1 EXCEPT !.rwc = NoConn], 0, w.herr,
                    <<Event("Hijack", NoConn, <<>>, w.herr)>>)
        ELSE LET c == Len(s1.conns) + 1
                 s2 == [s1 EXCEPT !.rwc = c, !.conns = Append(@, NewConn)]
                 hj == Result(s2, 0, NoErr, <<Event("Hijack", c, <<>>, NoErr)>>)
                 rd == SetDeadline(hj, w.kind, "rdl", t.rtimeout, w.rdlErr)
                 wd == SetDeadline(rd, w.kind, "wdl", t.wtimeout, w.wdlErr)
                 s3 == [wd.st EXCEPT !.connected = TRUE]
                 pr == Proceed(s3, w, r, k)
             IN  IF wd.panic THEN wd
                 ELSE [wd EXCEPT
                         !.st = pr.st,
                         !.trace = Append(@, Event("proceed", NoConn, <<>>, NoErr))
                                   \o pr.trace,
                         !.nested = Call(k.op, s3, k.p, r, "none", pr)]

\* Mutant: accept without its guard.
acceptUnguarded(st, w, r, k) == acceptBody(st, w, r, k)

\* Mutant: accept that records the request before its guard.
acceptRecordsFirst(st, w, r, k) ==
    IF st.connected
    THEN Result([st EXCEPT !.req = r], 0, ErrConnected, <<>>)
    ELSE acceptBody(st, w, r, k)

\* accept of exchange w with request r and continuation k.
accept(st, w, r, k) ==
    IF st.connected
    THEN Result(st, 0, ErrConnected, <<>>)
    ELSE acceptBody(st, w, r, k)

\* proceed(): the call the continuation makes, on the socket as accept has
\* left it.  A nested accept is given the same exchange and request.
Proceed(st, w, r, k) ==
    CASE k.op = "Read" -> Read(st, k.rout)
      [] k.op = "Write" -> Write(st, k.p, k.wout, k.cout)
      [] k.op = "Close" -> Close(st, k.cout)
      [] k.op = "accept" -> accept(st, w, r, NoContinuation)
      [] OTHER -> Result(st, 0, NoErr, <<>>)

----------------------------------------------------------------------------
(* The state machine: the calls a single flow of control makes.  Outcomes  *)
(* of operations a call does not reach are held at their defaults.         *)

Cur == State(connected, rwc, req, conns)

Becomes(op, p, r, wkind, res) ==
    /\ connected' = res.st.connected
    /\ rwc' = res.st.rwc
    /\ req' = res.st.req
    /\ conns' = res.st.conns
    /\ last' = [top |-> Call(op, Cur, p, r, wkind, res), nested |-> res.nested]
    /\ accepts' = IF op = "accept" /\ res.err = NoErr /\ ~res.panic
                  THEN accepts + 1 ELSE accepts
    /\ heldReq' = IF ~res.st.connected THEN NoReq
                  ELSE IF connected THEN heldReq
                  ELSE r
    /\ UNCHANGED <<t, flows, overlap>>

\* The flows of control that call the socket concurrently, and a flow that
\* has not called yet.
Flows == {"A", "B"}

FreshFlow ==
    [op |-> "none", pc |-> "idle", p |-> <<>>, n |-> 0, err |-> NoErr,
     passed |-> FALSE, onClosed |-> FALSE, calls |-> 0]

\* newSocket of a transport made by NewXHRPollingTransport.
Init ==
    /\ connected = FALSE
    /\ rwc = NoConn
    /\ req = NoReq
    /\ conns = <<>>
    /\ t \in [rtimeout : Timeouts, wtimeout : Timeouts]
    /\ last = [top |-> NoCall, nested |-> NoCall]
    /\ accepts = 0
    /\ heldReq = NoReq
    /\ flows = [f \in Flows |-> FreshFlow]
    /\ overlap = FALSE

\* Whether accept of w reaches the setter of a deadline and the continuation.
Hijacks(w) == ~connected /\ ExchangeKind(w) \in {"tcp", "other"}
SetsDeadline(w, timeout) == Hijacks(w) /\ w.kind = "tcp" /\ timeout # 0

DoAccept ==
    \E w \in Exchanges, r \in Requests, k \in Continuations :
        /\ Hijacks(w) => Len(conns) < MaxConns
        /\ ~SetsDeadline(w, t.rtimeout) => w.rdlErr = NoErr
        /\ ~SetsDeadline(w, t.wtimeout) => w.wdlErr = NoErr
        /\ ~Hijacks(w) => k = NoContinuation
        /\ Becomes("accept", <<>>, r, ExchangeKind(w), accept(Cur, w, r, k))

DoRead ==
    \E n \in 0..MaxBuf, e \in ReadErrors :
        /\ connected => conns[rwc].reads < MaxReads
        /\ ~connected => n = 0 /\ e = NoErr
        /\ Becomes("Read", <<>>, NoReq, "none", Read(Cur, [n |-> n, err |-> e]))

DoWrite ==
    \E p \in Payloads, wo \in WriteOutcomes, co \in CloseErrors :
        /\ ~connected => wo.err = NoErr /\ co = NoErr
        /\ Becomes("Write", p, NoReq, "none", Write(Cur, p, wo, co))

DoClose ==
    \E co \in CloseErrors :
        /\ ~connected => co = NoErr
        /\ Becomes("Close", <<>>, NoReq, "none", Close(Cur, co))

Next == DoAccept \/ DoRead \/ DoWrite \/ DoClose

Spec == Init /\ [][Next]_vars

(***************************************************************************)
(* Concurrent callers.  The socket has no lock: a call is its guard        *)
(* (reading s.connected), then its operations on the connection, and       *)
(* another flow's steps can fall between any two of them.  accept          *)
(* happens before the flows start.                                         *)
(***************************************************************************)

\* net.Conn's error for an operation on a connection already closed.
ErrNetClosed == "use of closed network connection"

Closed(st) == st.rwc # NoConn /\ st.conns[st.rwc].closes > 0

\* What the connection can answer to one Read, one Write and one Close.
ConnReadOutcomes(st) ==
    IF Closed(st)
    THEN {[n |-> 0, err |-> ErrNetClosed]}
    ELSE {[n |-> n, err |-> NoErr] : n \in 1..MaxBuf}
         \cup {[n |-> 0, err |-> e] : e \in ReadErrors \ {NoErr}}

ConnWriteOutcomes(st) ==
    IF Closed(st) THEN {[take |-> "none", err |-> ErrNetClosed]} ELSE WriteOutcomes

ConnCloseOutcomes(st) ==
    IF Closed(st) THEN {ErrNetClosed} ELSE CloseErrors

\* The guard every method starts with: if !s.connected { return ErrNotConnected }.
PassesGuard(st) == st.connected

\* Mutant: the read on the connection looks at s.connected once more.
ReadConnRechecks(st, rout) ==
    IF ~st.connected
    THEN Result(st, 0, ErrNotConnected, <<>>)
    ELSE Result([st EXCEPT !.conns[st.rwc].reads = @ + 1], rout.n, rout.err,
                <<Event("Read", st.rwc, Delivered(rout.n), rout.err)>>)

\* Read past its guard: return s.rwc.Read(p).
ReadConn(st, rout) ==
    Result([st EXCEPT !.conns[st.rwc].reads = @ + 1], rout.n, rout.err,
           <<Event("Read", st.rwc, Delivered(rout.n), rout.err)>>)

\* Write past its guard, up to its return: the response is built and
\* written to the connection; the deferred Close is still to run.
WriteConn(st, p, wout) ==
    LET buf == Response(p, st.req)
        wr == WriteTo(buf, wout)
    IN  Result([st EXCEPT !.conns[st.rwc].writes = @ + 1], Len(p), wr.err,
               <<Event("Write", st.rwc, buf, wout.err)>>)

\* Mutant: Close past its guard leaves s.connected set.
CloseMarkKeepsFlag(st) == st

\* Close past its guard: s.connected = false.
CloseMark(st) == [st EXCEPT !.connected = FALSE]

\* Close's last statement: return s.rwc.Close().
CloseConn(st, cout) ==
    Result([st EXCEPT !.conns[st.rwc].closes = @ + 1], 0, cout,
           <<Event("Close", st.rwc, <<>>, cout)>>)

\* Where a call stands once it is past its guard.
FirstStep(op) ==
    CASE op = "Read" -> "read"
      [] op = "Write" -> "write"
      [] OTHER -> "mark"

InCall(f) == flows[f].pc # "idle"

InitConc == Init

\* accept, before any flow has called; its continuation leaves the socket
\* alone.
Setup ==
    \E w \in Exchanges, r \in Requests :
        /\ conns = <<>>
        /\ \A f \in Flows : flows[f] = FreshFlow
        /\ ~SetsDeadline(w, t.rtimeout) => w.rdlErr = NoErr
        /\ ~SetsDeadline(w, t.wtimeout) => w.wdlErr = NoErr
        /\ Becomes("accept", <<>>, r, ExchangeKind(w), accept(Cur, w, r, NoContinuation))

\* A flow calls Read, Write or Close: the guard.
FlowCall(f) ==
    \E op \in {"Read", "Write", "Close"}, p \in SeqsUpTo(PayloadBytes, MaxPayload) :
        /\ ~InCall(f)
        /\ flows[f].calls < MaxCalls
        /\ op # "Write" => p = <<>>
        /\ flows' = [flows EXCEPT ![f] =
               [op |-> op, p |-> p, n |-> 0, onClosed |-> FALSE,
                calls |-> flows[f].calls + 1,
                passed |-> PassesGuard(Cur),
                pc |-> IF PassesGuard(Cur) THEN FirstStep(op) ELSE "idle",
                err |-> IF PassesGuard(Cur) THEN NoErr ELSE ErrNotConnected]]
        /\ overlap' = (overlap \/ (PassesGuard(Cur) /\ \E g \in Flows \ {f} : InCall(g)))
        /\ UNCHANGED <<connected, rwc, req, t, conns, last, accepts, heldReq>>

\* Read's s.rwc.Read(p) and return.
FlowRead(f) ==
    \E rout \in ConnReadOutcomes(Cur) :
        LET res == ReadConn(Cur, rout)
        IN  /\ flows[f].pc = "read"
            /\ conns' = res.st.conns
            /\ connected' = res.st.connected
            /\ flows' = [flows EXCEPT ![f].pc = "idle", ![f].n = res.n,
                                      ![f].err = res.err,
                                      ![f].onClosed = Closed(Cur)]
            /\ UNCHANGED <<rwc, req, t, last, accepts, heldReq, overlap>>

\* Write's buf.WriteTo(s.rwc) and return; its deferred Close runs next.
FlowWrite(f) ==
    \E wout \in ConnWriteOutcomes(Cur) :
        LET res == WriteConn(Cur, flows[f].p, wout)
        IN  /\ flows[f].pc = "write"
            /\ conns' = res.st.conns
            /\ flows' = [flows EXCEPT ![f].pc = "deferred", ![f].n = res.n,
                                      ![f].err = res.err,
                                      ![f].onClosed = Closed(Cur)]
            /\ UNCHANGED <<connected, rwc, req, t, last, accepts, heldReq, overlap>>

\* The guard of the Close that Write deferred; its error is dropped.
FlowDeferred(f) ==
    /\ flows[f].pc = "deferred"
    /\ flows' = [flows EXCEPT ![f].pc = IF PassesGuard(Cur) THEN "mark" ELSE "idle"]
    /\ UNCHANGED <<connected, rwc, req, t, conns, last, accepts, heldReq, overlap>>

\* Close's s.connected = false.
FlowMark(f) ==
    /\ flows[f].pc = "mark"
    /\ connected' = CloseMark(Cur).connected
    /\ flows' = [flows EXCEPT ![f].pc = "close"]
    /\ UNCHANGED <<rwc, req, t, conns, last, accepts, heldReq, overlap>>

\* Close's return s.rwc.Close(); a Close called directly returns its error.
FlowClose(f) ==
    \E cout \in ConnCloseOutcomes(Cur) :
        LET res == CloseConn(Cur, cout)
        IN  /\ flows[f].pc = "close"
            /\ conns' = res.st.conns
            /\ flows' = [flows EXCEPT ![f].pc = "idle",
                             ![f].err = IF flows[f].op = "Close" THEN res.err ELSE @]
            /\ UNCHANGED <<connected, rwc, req, t, last, accepts, heldReq, overlap>>

NextConc ==
    \/ Setup
    \/ \E f \in Flows : FlowCall(f)
    \/ \E f \in Flows : FlowRead(f)
    \/ \E f \in Flows : FlowWrite(f)
    \/ \E f \in Flows : FlowDeferred(f)
    \/ \E f \in Flows : FlowMark(f)
    \/ \E f \in Flows : FlowClose(f)

SpecConc == InitConc /\ [][NextConc]_vars

----------------------------------------------------------------------------
(* Properties.                                                             *)

\* The last call and the call its continuation made; both end in the
\* current state.
Calls == <<last.top, last.nested>>

\* The operations named op among those of a trace.
Only(trace, op) == SelectSeq(trace, LAMBDA e : e.op = op)

\* The operations a call performed itself: those before its continuation ran.
RECURSIVE Own(_)
Own(trace) ==
    IF trace = <<>> \/ Head(trace).op = "proceed" THEN <<>>
    ELSE <<Head(trace)>> \o Own(Tail(trace))

\* A call that found the socket Connected / Unconnected.
OnConnected(c, op) == c.op = op /\ c.pre.connected
OnUnconnected(c, op) == c.op = op /\ ~c.pre.connected

RECURSIVE TotalCloses(_)
TotalCloses(cs) == IF cs = <<>> THEN 0 ELSE Head(cs).closes + TotalCloses(Tail(cs))

\* Whether pat occurs in s.
Occurs(pat, s) ==
    \E i \in 1..(Len(s) - Len(pat) + 1) : SubSeq(s, i, i + Len(pat) - 1) = pat

\* The number a string of decimal digits denotes.
RECURSIVE ParseDec(_)
ParseDec(ds) ==
    IF ds = <<>> THEN 0
    ELSE 10 * ParseDec(SubSeq(ds, 1, Len(ds) - 1)) + (ds[Len(ds)] - 48)

\* C1: every Write on a Connected socket, whether the write to the
\* connection succeeds or fails, leaves the socket Unconnected with the
\* connection closed (the close is the last thing it does), and a Read
\* afterwards returns NotConnected.
C1_WriteIsTerminal ==
    \A i \in 1..2 :
        LET c == Calls[i]
        IN  OnConnected(c, "Write") =>
                /\ ~connected
                /\ conns[c.pre.rwc].closes = c.pre.conns[c.pre.rwc].closes + 1
                /\ c.trace[Len(c.trace)].op = "Close"
                /\ c.trace[Len(c.trace)].c = c.pre.rwc
                /\ \A n \in 0..MaxBuf, e \in ReadErrors :
                       LET rd == Read(Cur, [n |-> n, err |-> e])
                       IN  rd.err = ErrNotConnected /\ rd.n = 0 /\ rd.trace = <<>>

\* A Write whose write to the connection failed has returned.
C1_Witness ==
    /\ OnConnected(last.top, "Write")
    /\ last.top.err # NoErr
    /\ last.top.trace[1].err # NoErr

\* C2 as claimed: at most one accept succeeds on a socket instance.
C2_AtMostOneAccept == accepts <= 1

\* C2 as amended: accept succeeds only on an Unconnected socket, so between
\* two successful accepts the socket was closed; a closed socket is not
\* terminal, and an accept whose hijack succeeds connects it again.
C2_AcceptOnlyWhenUnconnected ==
    /\ accepts <= TotalCloses(conns) + 1
    /\ \A i \in 1..2 :
           LET c == Calls[i]
           IN  (c.op = "accept" /\ c.err = NoErr /\ ~c.panic) => ~c.pre.connected

\* A second accept has succeeded on a socket that was closed before.
C2_Witness ==
    /\ accepts = 2
    /\ last.top.op = "accept"
    /\ last.top.err = NoErr
    /\ ~last.top.panic
    /\ TotalCloses(last.top.pre.conns) = 1
    /\ connected

\* The response handed to the connection by a Write, up to the length.
Head3 == StatusLine \o ContentTypeLine \o ContentLengthKey

\* C3: Write(P) on a Connected socket hands the connection, in one Write,
\* the status line, the Content-Type line, Content-Length: N with N the
\* decimal length of P, optionally the two CORS lines, a blank line and P.
C3_ResponseBytes ==
    \A i \in 1..2 :
        LET c == Calls[i]
        IN  OnConnected(c, "Write") =>
                /\ Len(Only(c.trace, "Write")) = 1
                /\ c.trace[1].op = "Write"
                /\ c.trace[1].c = c.pre.rwc
                /\ LET d == c.trace[1].data
                       x == HeaderGet(c.pre.req)
                   IN  \E nd \in 1..3 :
                           LET digits == SubSeq(d, Len(Head3) + 1, Len(Head3) + nd)
                               rest == SubSeq(d, Len(Head3) + nd + 1, Len(d))
                           IN  /\ SubSeq(d, 1, Len(Head3)) = Head3
                               /\ \A k \in 1..nd : digits[k] \in 48..57
                               /\ nd > 1 => digits[1] # 48
                               /\ ParseDec(digits) = Len(c.p)
                               /\ \/ rest = CRLF \o CRLF \o c.p
                                  \/ rest = CRLF \o AllowOriginKey \o x \o CRLF
                                            \o AllowCredentialsLine \o CRLF \o c.p

\* A Write of the long payload, whose length has two digits, has returned.
C3_Witness ==
    /\ OnConnected(last.top, "Write")
    /\ Len(last.top.p) >= 10
    /\ last.top.err = NoErr

\* The header part of the response a Write handed to the connection.
HeaderPart(c) == SubSeq(c.trace[1].data, 1, Len(c.trace[1].data) - Len(c.p))

\* C4: the response holds the lines Access-Control-Allow-Origin: X and
\* Access-Control-Allow-Credentials: true exactly when the request of the
\* accept that connected the socket has a non-empty Origin X; otherwise it
\* holds neither.
C4_CorsIffOrigin ==
    /\ connected => req = heldReq
    /\ \A i \in 1..2 :
           LET c == Calls[i]
               r == IF i = 1 THEN last.top.pre.req ELSE last.top.r
               x == IF r.origin = <<>> THEN <<>> ELSE r.origin[1]
           IN  OnConnected(c, "Write") =>
                   IF x # <<>>
                   THEN /\ Occurs(CRLF \o AllowOriginKey \o x \o CRLF, HeaderPart(c))
                        /\ Occurs(CRLF \o AllowCredentialsLine, HeaderPart(c))
                   ELSE /\ ~Occurs(AllowOriginKey, HeaderPart(c))
                        /\ ~Occurs(AllowCredentialsLine, HeaderPart(c))

\* A Write on a socket whose request has an Origin has returned.
C4_Witness ==
    /\ OnConnected(last.top, "Write")
    /\ HeaderGet(last.top.pre.req) # <<>>

\* C5: Read, Write and Close on an Unconnected socket return NotConnected
\* (Read and Write with 0 bytes), perform no operation on any connection
\* and leave the flag, the request and the connection as they were.
C5_UnconnectedRejects ==
    \A op \in {"Read", "Write", "Close"} :
        OnUnconnected(last.top, op) =>
            /\ last.top.err = ErrNotConnected
            /\ last.top.n = 0
            /\ ~last.top.panic
            /\ last.top.trace = <<>>
            /\ Cur = last.top.pre

\* A Write on a socket that was connected and closed has been rejected.
C5_Witness ==
    /\ OnUnconnected(last.top, "Write")
    /\ last.top.pre.rwc # NoConn
    /\ last.top.p # <<>>

\* C6: accept on a Connected socket returns AlreadyConnected without
\* hijacking, setting a deadline or invoking the continuation, and leaves
\* the socket Connected with the connection and request it had.
C6_AcceptOnConnected ==
    \A i \in 1..2 :
        LET c == Calls[i]
        IN  OnConnected(c, "accept") =>
                /\ c.err = ErrConnected
                /\ ~c.panic
                /\ c.trace = <<>>
                /\ Cur = c.pre
                /\ connected

\* An accept bringing another request has been rejected on a Connected
\* socket.
C6_Witness ==
    /\ OnConnected(last.top, "accept")
    /\ last.top.r # last.top.pre.req
    /\ last.top.wkind = "tcp"

\* C7: after a successful accept the first Close (or Write) marks the socket
\* Unconnected and closes the connection once, a Close after it returns
\* NotConnected and closes nothing, and so no hijacked connection is closed
\* twice and every connection an accept succeeded on is closed exactly once
\* when the socket has let go of it.
C7_ClosedExactlyOnce ==
    /\ \A c \in DOMAIN conns : conns[c].closes <= 1
    /\ TotalCloses(conns) = accepts - (IF connected THEN 1 ELSE 0)
    /\ \A op \in {"Close", "Write"} :
           OnConnected(last.top, op) =>
               /\ ~connected
               /\ Len(Only(last.top.trace, "Close")) = 1
               /\ Only(last.top.trace, "Close")[1].c = last.top.pre.rwc
               /\ conns[last.top.pre.rwc].closes = 1
    /\ OnUnconnected(last.top, "Close") =>
           /\ last.top.err = ErrNotConnected
           /\ conns = last.top.pre.conns

\* A second Close has been rejected after the first closed the connection.
C7_Witness ==
    /\ OnUnconnected(last.top, "Close")
    /\ last.top.pre.rwc # NoConn
    /\ conns[last.top.pre.rwc].closes = 1
    /\ accepts = 1

\* C8 as claimed: however the hijack fails, accept on an Unconnected socket
\* returns the failure as its error, the socket stays Unconnected, the
\* continuation is not invoked and no deadline is set and nothing is read
\* from, written to or closed on a connection.
C8_HijackFailureReturned ==
    (OnUnconnected(last.top, "accept") /\ last.top.wkind \in {"no hijacker", "hijack error"}) =>
        /\ ~last.top.panic
        /\ last.top.err \notin {NoErr, ErrConnected}
        /\ ~connected
        /\ conns = last.top.pre.conns
        /\ \A k \in 1..Len(last.top.trace) : last.top.trace[k].op = "Hijack"

\* C9: Write on a Connected socket returns len(payload) and the error of
\* the write to the connection, whether that write took all, some or none
\* of the response.
C9_WriteReturn ==
    \A i \in 1..2 :
        LET c == Calls[i]
        IN  OnConnected(c, "Write") =>
                /\ c.n = Len(c.p)
                /\ c.err = c.trace[1].err
                /\ ~c.panic

\* A Write whose write to the connection was cut short has returned.
C9_Witness ==
    /\ OnConnected(last.top, "Write")
    /\ last.top.err # NoErr
    /\ last.top.p # <<>>
    /\ conns[last.top.pre.rwc].writes = 1

\* C10 as claimed: whenever an operation performed during a call fails (the
\* hijack, setting a deadline, the read, the write, the close), the call
\* returns an error.
C10_NoErrorSwallowed ==
    \A i \in 1..2 :
        LET c == Calls[i]
        IN  (\E k \in 1..Len(Own(c.trace)) : c.trace[k].err # NoErr) => c.err # NoErr

\* C10 as amended: the error of a failed Hijack, Read or Write on the
\* connection and of the close performed by Close is what the call returns;
\* the error of setting a deadline in accept and of the close Write performs
\* is dropped.
C10_ReturnedErrors ==
    \A i \in 1..2 :
        LET c == Calls[i]
        IN  \A k \in 1..Len(Own(c.trace)) :
                LET e == c.trace[k]
                IN  (e.err # NoErr /\ (e.op \in {"Hijack", "Read", "Write"}
                                      \/ (e.op = "Close" /\ c.op = "Close")))
                        => c.err = e.err

\* A Close whose close of the connection failed has returned.
C10_Witness ==
    /\ OnConnected(last.top, "Close")
    /\ last.top.trace[1].err # NoErr
    /\ last.top.err # NoErr

\* C11 as claimed: between calls the connected flag is true exactly when the
\* socket holds a connection that a hijack in accept yielded and that the
\* socket has not closed.
C11_ConnectedIffHolding ==
    connected <=> (rwc # NoConn /\ conns[rwc].closes = 0)

\* C12 as claimed: whenever the hijack succeeds, whatever the kind of
\* connection and whatever the timeouts, accept marks the socket Connected,
\* invokes the continuation and returns no error, and no hijacked connection
\* is left unclosed in an Unconnected socket.
C12_HijackedMeansConnected ==
    /\ (OnUnconnected(last.top, "accept") /\ last.top.wkind \in {"tcp", "other"}) =>
           /\ ~last.top.panic
           /\ last.top.err = NoErr
           /\ Len(Only(last.top.trace, "proceed")) = 1
           /\ last.nested.pre.connected
    /\ ~(~connected /\ rwc # NoConn /\ conns[rwc].closes = 0)

\* C13: accept invokes the continuation once when it succeeds and not at all
\* when it fails or is rejected, and no other call invokes it; when it runs
\* the socket is already Connected with its deadlines set, so a Read, Write
\* or Close made by the continuation reaches the connection and an accept
\* made by it returns AlreadyConnected.
C13_ContinuationOnceWhenConnected ==
    /\ \A i \in 1..2 :
           LET c == Calls[i]
           IN  Len(Only(c.trace, "proceed")) =
                   IF c.op = "accept" /\ c.err = NoErr /\ ~c.panic THEN 1 ELSE 0
    /\ Len(Only(last.top.trace, "proceed")) = 1 =>
           LET n == last.nested
               held == n.pre.conns[n.pre.rwc]
           IN  /\ n.pre.connected
               /\ held.rdl = (IF t.rtimeout # 0 THEN 1 ELSE 0)
               /\ held.wdl = (IF t.wtimeout # 0 THEN 1 ELSE 0)
               /\ n.op \in {"Read", "Write", "Close"} =>
                      /\ n.err # ErrNotConnected
                      /\ n.trace # <<>>
                      /\ n.trace[1].c = n.pre.rwc
               /\ n.op = "accept" => n.err = ErrConnected /\ n.trace = <<>>

\* A continuation that reads has run on a socket with a read deadline.
C13_Witness ==
    /\ last.top.op = "accept"
    /\ last.nested.op = "Read"
    /\ t.rtimeout # 0
    /\ conns[rwc].reads = 1

\* The deadline setters called by a call itself, on connection c.
DeadlinesSet(c, op, conn) ==
    Len(SelectSeq(Own(c.trace), LAMBDA e : e.op = op /\ e.c = conn))

\* C14: a successful accept sets the read deadline of the connection it
\* hijacked exactly when the read timeout is not zero and the write
\* deadline exactly when the write timeout is not zero; Read, Write, Close
\* and an accept that fails set no deadline.
C14_DeadlinesIffTimeouts ==
    /\ (OnUnconnected(last.top, "accept") /\ last.top.err = NoErr /\ ~last.top.panic) =>
           LET new == Len(last.top.pre.conns) + 1
           IN  /\ DeadlinesSet(last.top, "SetReadDeadline", new)
                      = (IF t.rtimeout # 0 THEN 1 ELSE 0)
               /\ DeadlinesSet(last.top, "SetWriteDeadline", new)
                      = (IF t.wtimeout # 0 THEN 1 ELSE 0)
               /\ Len(Only(last.top.trace, "SetReadDeadline"))
                      = DeadlinesSet(last.top, "SetReadDeadline", new)
               /\ Len(Only(last.top.trace, "SetWriteDeadline"))
                      = DeadlinesSet(last.top, "SetWriteDeadline", new)
               /\ last.nested.pre.conns[new].rdl = (IF t.rtimeout # 0 THEN 1 ELSE 0)
               /\ last.nested.pre.conns[new].wdl = (IF t.wtimeout # 0 THEN 1 ELSE 0)
    /\ ~(last.top.op = "accept" /\ last.top.err = NoErr /\ ~last.top.panic) =>
           /\ Only(last.top.trace, "SetReadDeadline") = <<>>
           /\ Only(last.top.trace, "SetWriteDeadline") = <<>>
           /\ \A c \in DOMAIN last.top.pre.conns :
                  /\ conns[c].rdl = last.top.pre.conns[c].rdl
                  /\ conns[c].wdl = last.top.pre.conns[c].wdl
           /\ \A c \in DOMAIN conns :
                  c \notin DOMAIN last.top.pre.conns =>
                      conns[c].rdl = 0 /\ conns[c].wdl = 0
    /\ last.nested.op # "none" =>
           /\ Only(last.nested.trace, "SetReadDeadline") = <<>>
           /\ Only(last.nested.trace, "SetWriteDeadline") = <<>>
           /\ \A c \in DOMAIN last.nested.pre.conns :
                  /\ conns[c].rdl = last.nested.pre.conns[c].rdl
                  /\ conns[c].wdl = last.nested.pre.conns[c].wdl
    /\ \A c \in DOMAIN conns : conns[c].rdl <= 1 /\ conns[c].wdl <= 1

\* An accept has succeeded with no read timeout and a write timeout, and
\* set the write deadline alone.
C14_Witness ==
    /\ OnUnconnected(last.top, "accept")
    /\ last.top.err = NoErr
    /\ ~last.top.panic
    /\ t.rtimeout = 0
    /\ t.wtimeout # 0
    /\ conns[Len(conns)].wdl = 1
    /\ conns[Len(conns)].rdl = 0

\* C15: Read on a Connected socket performs one Read on the connection and
\* returns its byte count and its error as they are, end of stream and a
\* deadline timeout included; the socket stays Connected with the same
\* connection and request, and the connection is not closed.
C15_ReadDelegates ==
    \A i \in 1..2 :
        LET c == Calls[i]
        IN  OnConnected(c, "Read") =>
                /\ Len(c.trace) = 1
                /\ c.trace[1].op = "Read"
                /\ c.trace[1].c = c.pre.rwc
                /\ c.n = Len(c.trace[1].data)
                /\ c.err = c.trace[1].err
                /\ ~c.panic
                /\ connected
                /\ rwc = c.pre.rwc
                /\ req = c.pre.req
                /\ conns[rwc].closes = 0
                /\ conns = [c.pre.conns EXCEPT ![rwc].reads = @ + 1]

\* A Read that ran into its deadline has returned.
C15_Witness ==
    /\ OnConnected(last.top, "Read")
    /\ last.top.err = "i/o timeout"
    /\ connected

\* C16: each hijacked connection is written to at most once, by the one
\* Write of the response that a Write call on a Connected socket makes; a
\* Write after it returns NotConnected and writes nothing.
C16_OneMessagePerConnection ==
    /\ \A c \in DOMAIN conns : conns[c].writes <= 1
    /\ \A i \in 1..2 :
           LET c == Calls[i]
           IN  /\ OnConnected(c, "Write") =>
                      /\ Len(Only(c.trace, "Write")) = 1
                      /\ c.pre.conns[c.pre.rwc].writes = 0
                      /\ conns[c.pre.rwc].writes = 1
               /\ OnUnconnected(c, "Write") =>
                      /\ c.err = ErrNotConnected
                      /\ c.n = 0
                      /\ c.trace = <<>>
                      /\ conns = c.pre.conns
               /\ c.op # "Write" => Only(c.trace, "Write") = <<>>
                                    \/ (i = 1 /\ last.nested.op = "Write")

\* A second Write has been rejected on a socket whose connection carries
\* the response of the first.
C16_Witness ==
    /\ OnUnconnected(last.top, "Write")
    /\ last.top.pre.rwc # NoConn
    /\ conns[last.top.pre.rwc].writes = 1
    /\ conns[last.top.pre.rwc].closes = 1

\* C19 as claimed: an accept whose hijack fails leaves the recorded request
\* and the held connection as they were before the call.
C19_FailedAcceptKeepsFields ==
    (OnUnconnected(last.top, "accept") /\ last.top.wkind = "hijack error") =>
        /\ req = last.top.pre.req
        /\ rwc = last.top.pre.rwc

(***************************************************************************)
(* Concurrent callers (SpecConc).                                          *)
(***************************************************************************)

Finished(f, op) == flows[f].op = op /\ ~InCall(f)

\* C17: a Read that passed its connected check performs its read on the
\* connection whatever another flow does meanwhile: it is rejected with
\* NotConnected exactly when its check failed, and when a concurrent Write
\* has completed and closed the connection in between, the Read is made on
\* the closed connection and returns the connection's error.
C17_ReadPastGuardReadsClosed ==
    \A f \in Flows :
        Finished(f, "Read") =>
            /\ flows[f].passed <=> flows[f].err # ErrNotConnected
            /\ flows[f].onClosed =>
                   /\ flows[f].passed
                   /\ flows[f].err = ErrNetClosed
                   /\ flows[f].n = 0
                   /\ overlap

\* C17's interleaving: the Read passed its check, the Write completed and
\* closed the connection, and the Read was made on the closed connection.
C17_Witness ==
    \E f, g \in Flows :
        /\ Finished(f, "Read") /\ flows[f].passed /\ flows[f].onClosed
        /\ flows[f].err = ErrNetClosed
        /\ Finished(g, "Write") /\ flows[g].passed /\ ~flows[g].onClosed
        /\ ~connected /\ conns[rwc].closes = 1 /\ conns[rwc].writes = 1

CloseRacesWriteOrClose ==
    /\ \E f \in Flows : flows[f].op = "Close" /\ flows[f].passed
    /\ \A f \in Flows : flows[f].op \in {"Close", "Write"} /\ flows[f].passed

\* C18 as stated: when a Close runs concurrently with a Write or a Close,
\* the connection is closed at most once and no response is written to it
\* after it has been closed.
C18_ClosedOnceNothingAfter ==
    CloseRacesWriteOrClose =>
        /\ \A c \in DOMAIN conns : conns[c].closes <= 1
        /\ \A f \in Flows : flows[f].op = "Write" => ~flows[f].onClosed

\* C18 amended: the socket does not serialise its callers.  A connection is
\* closed at most once per concurrent flow, and it is closed more than once,
\* or written or read after its close, only when a call passed its connected
\* check while another call was under way.
C18_OnlyOverlappingCallsRace ==
    /\ \A c \in DOMAIN conns : conns[c].closes <= Cardinality(Flows)
    /\ ~overlap =>
           /\ \A c \in DOMAIN conns : conns[c].closes <= 1
           /\ \A f \in Flows : ~flows[f].onClosed

\* A Close raced a Write: the response was written after the close.
C18_Witness ==
    \E f, g \in Flows :
        /\ Finished(f, "Close") /\ flows[f].passed
        /\ Finished(g, "Write") /\ flows[g].passed /\ flows[g].onClosed
        /\ flows[g].err = ErrNetClosed
        /\ overlap

====
